---------------------------- MODULE Spec2Model ----------------------------
(***************************************************************************)
(* A model of poker_payout_calculator.py: the payout calculation, the      *)
(* player payment ledger and the weight list with its editor window.       *)
(*                                                                         *)
(* Conventions.                                                            *)
(*  - A tkinter DoubleVar/IntVar bound to a text entry is a sequence:      *)
(*    <<v>> when the entry text parses to the number v, <<>> when it does  *)
(*    not (variable.get() raises TclError).                                *)
(*  - Money is counted in whole units; a payout or a percentage, which the *)
(*    code computes by a floating-point division, is kept as the exact     *)
(*    fraction [num, den] with den > 0.                                    *)
(*  - Python lists of weights are objects on a heap (heap[id] is the list  *)
(*    with identity id); a variable holding a list holds its id, so that   *)
(*    an in-place change is seen through every reference to the list.      *)
(***************************************************************************)
EXTENDS Integers, Sequences, FiniteSets, TLC

(***************************************************************************)
(* Program constants                                                       *)
(***************************************************************************)
DefaultWeights == <<35, 20, 15, 10, 8, 6, 3, 2, 1>>
InitPlayers == 9
InitBuyIn == 20
InitFood == 5
InitBounty == 2
InitDuration == 180
SliderMin == 3
SliderMax == 30
NewPositionWeight == 1

(***************************************************************************)
(* Bounds of the model                                                     *)
(***************************************************************************)
\* the player slider is released at its lowest value or at MaxPlayers
MaxPlayers == 5
\* the largest amount typed into a money entry (the smallest is -1)
MaxMoney == 1
\* the largest weight typed into a weight entry (the smallest is -1)
MaxWeight == 1
\* the weight entries 1..MaxEditIdx are the ones edited
MaxEditIdx == 2
\* Add Position is pressed while the list is shorter than MaxLen
MaxLen == 9
\* identities available for list objects
NumLists == 4
\* the payout calculation is applied to 1..MaxCalcPlayers players
MaxCalcPlayers == 12
\* and to every list of at most MaxCalcLen weights in 1..MaxCalcWeight
MaxCalcLen == 3
MaxCalcWeight == 2
\* the pool summary is applied to ledgers whose first MaxPaidRows rows carry
\* any checkbox values
MaxPaidRows == 2
\* a run of the whole program has at most MaxSteps handler calls
MaxSteps == 4
\* the game duration entry holds 0..MaxDuration minutes, or no number
MaxDuration == 2
\* ids available for the calls root.after has scheduled
NumJobs == 3

VARIABLES
    num_players,        \* self.num_players (IntVar, only set by the program)
    buy_in,             \* self.buy_in (DoubleVar of an entry)
    food_per_player,    \* self.food_per_player
    bounty_per_player,  \* self.bounty_per_player
    heap,               \* the list objects: identity -> contents
    default_weights,    \* self.default_weights (identity)
    current_weights,    \* self.current_weights (identity)
    weights_window,     \* self.weights_window: "None", "open" or "destroyed"
    ww_current_weights, \* WeightsWindow.current_weights (identity, 0: no window yet)
    weight_entries,     \* WeightsWindow.weight_entries (the IntVars of the entries)
    player_data,        \* self.player_data
    results,            \* what results_scroll shows: the payout plan
    summary,            \* what the three pool summary labels show
    summary_runs,       \* the summaries computed during the last handler, in order
    summary_reads,      \* what each of these runs of update_pool_summary read:
                        \* the player count and the length of the ledger
    total_per_player_label, \* the "Total Due Per Player" label
    player_count_label, \* the "Players: n" label under the slider
    current_time,       \* self.current_time (seconds)
    timer_running,      \* self.timer_running
    timer_job,          \* self.timer_job (0: None)
    timer_direction,    \* self.timer_direction
    game_duration,      \* self.game_duration (IntVar of an entry)
    pending,            \* the update_timer calls root.after has scheduled and
                        \* not yet run or cancelled: their ids, first due first
    last,               \* the handler that ran last and how it ended
    steps               \* the handler calls the event loop has counted

cfgVars == <<num_players, buy_in, food_per_player, bounty_per_player>>
weightVars == <<heap, default_weights, current_weights, weights_window,
                ww_current_weights, weight_entries>>
ledgerVars == <<player_data>>
displayVars == <<results, summary, summary_runs, summary_reads,
                 total_per_player_label,
                 player_count_label>>
timerVars == <<current_time, timer_running, timer_job, timer_direction, game_duration,
               pending>>
vars == <<cfgVars, weightVars, ledgerVars, displayVars, timerVars, last, steps>>

(***************************************************************************)
(* Helpers                                                                 *)
(***************************************************************************)
Min(a, b) == IF a <= b THEN a ELSE b
Max(a, b) == IF a >= b THEN a ELSE b

RECURSIVE SumSeq(_)
SumSeq(s) == IF s = <<>> THEN 0 ELSE Head(s) + SumSeq(Tail(s))

\* Python's s[:k] for k >= 0
Prefix(s, k) == SubSeq(s, 1, Min(k, Len(s)))

\* safe_get_value: variable.get(), or the default when it raises TclError
safe_get_value(variable, default) ==
    IF variable = <<>> THEN default ELSE variable[1]

ListIds == 1..NumLists


(***************************************************************************)
(* calculate_payouts                                                       *)
(***************************************************************************)
\* (mutant) a third of the players rounded up, as in the earlier variant
MaxPayingPositionsCeil(players, weights) ==
    Min(Max(1, (players + 2) \div 3), Len(weights))

\* max_paying_positions: at most a third of the players, at most one per weight
MaxPayingPositions(players, weights) ==
    Min(Max(1, players \div 3), Len(weights))

\* paying_weights: the weights of the positions that are paid
PayingWeights(players, weights) ==
    Prefix(weights, MaxPayingPositions(players, weights))

\* (mutant) the divisor taken over the whole list, paid or not
TotalWeightOfAll(players, weights) ==
    LET total_weight == SumSeq(weights)
    IN  IF total_weight = 0 THEN 1 ELSE total_weight

\* (mutant) no guard: the divisor is the sum, 0 or not
TotalWeightUnguarded(players, weights) ==
    SumSeq(PayingWeights(players, weights))

\* total_weight, with the guard against a division by zero
TotalWeight(players, weights) ==
    LET total_weight == SumSeq(PayingWeights(players, weights))
    IN  IF total_weight = 0 THEN 1 ELSE total_weight

\* payout = (weight / total_weight) * prize_pool, as an exact fraction
Payout(weight, total_weight, prize_pool) ==
    [num |-> weight * prize_pool, den |-> total_weight]

\* the rows create_payout_row adds, first place first
PayoutRows(players, buy, weights) ==
    LET paying_weights == PayingWeights(players, weights)
        total_weight == TotalWeight(players, weights)
        prize_pool == players * buy
    IN  [position \in 1..MaxPayingPositions(players, weights) |->
            [position |-> position,
             payout |-> Payout(paying_weights[position], total_weight, prize_pool),
             weight |-> paying_weights[position]]]

\* (mutant) the bounty pool is left out of the total
PoolsWithoutBounty(players, buy, food, bounty) ==
    [prize_pool |-> players * buy, food_pool |-> players * food,
     bounty_pool |-> players * bounty,
     total_pool |-> players * buy + players * food]

\* the arguments of display_pool_summary
Pools(players, buy, food, bounty) ==
    LET prize_pool == players * buy
        food_pool == players * food
        bounty_pool == players * bounty
    IN  [prize_pool |-> prize_pool, food_pool |-> food_pool,
         bounty_pool |-> bounty_pool,
         total_pool |-> prize_pool + food_pool + bounty_pool]

\* display_bounty_info is shown only for a positive bounty per player
BountyInfo(players, bounty) ==
    IF bounty > 0
    THEN <<[bounty_per_knockout |-> bounty, bounty_pool |-> players * bounty]>>
    ELSE <<>>

\* (mutant) the total pool, food and bounty included, is paid out
CalculatePayoutsOfTotalPool(players, buy_var, food_var, bounty_var, weights) ==
    LET buy == safe_get_value(buy_var, 0)
        food == safe_get_value(food_var, 0)
        bounty == safe_get_value(bounty_var, 0)
    IN  <<[pools |-> Pools(players, buy, food, bounty),
           rows |-> PayoutRows(players, buy + food + bounty, weights),
           bounty_info |-> BountyInfo(players, bounty)]>>

\* what calculate_payouts leaves in results_scroll
CalculatePayouts(players, buy_var, food_var, bounty_var, weights) ==
    LET buy == safe_get_value(buy_var, 0)
        food == safe_get_value(food_var, 0)
        bounty == safe_get_value(bounty_var, 0)
    IN  <<[pools |-> Pools(players, buy, food, bounty),
           rows |-> PayoutRows(players, buy, weights),
           bounty_info |-> BountyInfo(players, bounty)]>>

(***************************************************************************)
(* The ledger                                                              *)
(***************************************************************************)
\* (mutant) the new player is named after the length after the append
NewPlayerNamedAfterAppend(k) ==
    [name |-> "Player " \o ToString(k + 1),
     buy_in |-> FALSE, food |-> FALSE, bounty |-> FALSE, all |-> FALSE,
     eliminated |-> FALSE, payed_out |-> FALSE]

\* the record update_player_data appends as the k-th player
NewPlayer(k) ==
    [name |-> "Player " \o ToString(k),
     buy_in |-> FALSE, food |-> FALSE, bounty |-> FALSE, all |-> FALSE,
     eliminated |-> FALSE, payed_out |-> FALSE]

\* (mutant) the records in excess are never popped
UpdatePlayerDataNoPop(data, players) ==
    IF Len(data) < players
    THEN data \o [k \in 1..(players - Len(data)) |->
                     [name |-> "Player " \o ToString(Len(data) + k),
                      buy_in |-> FALSE, food |-> FALSE, bounty |-> FALSE,
                      all |-> FALSE, eliminated |-> FALSE, payed_out |-> FALSE]]
    ELSE data

\* update_player_data: append while too short, pop while too long
UpdatePlayerData(data, players) ==
    IF Len(data) < players
    THEN data \o [k \in 1..(players - Len(data)) |-> NewPlayer(Len(data) + k)]
    ELSE IF Len(data) > players
         THEN SubSeq(data, 1, Max(players, 0))
         ELSE data

\* (mutant) the bounty box is left out of the test
AllCheckedButBounty(player) == player.buy_in /\ player.food

\* on_checkbox_change: the three payment boxes are all checked
AllChecked(player) == player.buy_in /\ player.food /\ player.bounty

\* on_checkbox_change, after the checkbox has toggled its variable
OnCheckboxChange(player) == [player EXCEPT !.all = AllChecked(player)]

\* (mutant) 'All' also clears the eliminated box
OnAllCheckboxChangeClearing(player) ==
    [player EXCEPT !.buy_in = player.all, !.food = player.all,
                   !.bounty = player.all, !.eliminated = FALSE]

\* on_all_checkbox_change, after the checkbox has toggled the 'all' variable
OnAllCheckboxChange(player) ==
    [player EXCEPT !.buy_in = player.all, !.food = player.all, !.bounty = player.all]

\* (mutant) the payed-out checkbox is bound to the eliminated variable
ToggleWrongBox(player, field) ==
    IF field = "payed_out"
    THEN [player EXCEPT !.eliminated = ~player.eliminated]
    ELSE [player EXCEPT ![field] = ~player[field]]

\* a checkbox click: the widget writes its variable before it calls the command
Toggle(player, field) == [player EXCEPT ![field] = ~player[field]]

(***************************************************************************)
(* update_pool_summary                                                     *)
(***************************************************************************)
\* (mutant) a checked 'All' box counts as one more buy-in
TotalPaidCountingAll(data, buy, food, bounty) ==
    SumSeq([i \in 1..Len(data) |->
               (IF data[i].buy_in THEN buy ELSE 0)
               + (IF data[i].food THEN food ELSE 0)
               + (IF data[i].bounty THEN bounty ELSE 0)
               + (IF data[i].all THEN buy ELSE 0)])

RECURSIVE TotalPaid(_, _, _, _)
TotalPaid(data, buy, food, bounty) ==
    IF data = <<>> THEN 0
    ELSE LET player == Head(data)
         IN  (IF player.buy_in THEN buy ELSE 0)
             + (IF player.food THEN food ELSE 0)
             + (IF player.bounty THEN bounty ELSE 0)
             + TotalPaid(Tail(data), buy, food, bounty)

EliminatedCount(data) == Cardinality({i \in 1..Len(data) : data[i].eliminated})
PayedOutCount(data) == Cardinality({i \in 1..Len(data) : data[i].payed_out})

\* (mutant) the division is made whatever the total pool
PercentPaidUnguarded(total_paid, total_pool) ==
    [num |-> total_paid * 100, den |-> total_pool]

\* (mutant) the guard lets a total pool of 0 through to the division
PercentPaidDividingByZero(total_paid, total_pool) ==
    IF total_pool >= 0
    THEN [num |-> total_paid * 100, den |-> total_pool]
    ELSE [num |-> 0, den |-> 1]

\* percent_paid, with the guard against a division by zero
PercentPaid(total_paid, total_pool) ==
    IF total_pool > 0
    THEN [num |-> total_paid * 100, den |-> total_pool]
    ELSE [num |-> 0, den |-> 1]

\* the colour of the percent label
PercentColor(percent_paid) ==
    IF percent_paid.num >= 100 * percent_paid.den THEN "accent_green"
    ELSE IF percent_paid.num >= 75 * percent_paid.den THEN "gold"
    ELSE "card_white"

\* the three pool summary labels as setup_bank creates them
LabelsAtSetup ==
    [total_pool |-> 0, total_paid |-> 0, percent_paid |-> [num |-> 0, den |-> 1],
     color |-> "gold", active |-> 0, payed_out |-> 0]

\* the except branch of update_pool_summary: zeroed texts, the colour of the
\* percent label left as it is
SummaryOnError(shown) ==
    [total_pool |-> 0, total_paid |-> 0, percent_paid |-> [num |-> 0, den |-> 1],
     color |-> shown.color, active |-> 0, payed_out |-> 0]

\* what update_pool_summary writes to the three labels, which show the
\* summary shown before it runs; a division by 0 raises ZeroDivisionError,
\* which the except branch catches before any label is written
UpdatePoolSummary(shown, players, buy_var, food_var, bounty_var, data) ==
    LET buy == safe_get_value(buy_var, 0)
        food == safe_get_value(food_var, 0)
        bounty == safe_get_value(bounty_var, 0)
        total_pool == players * (buy + food + bounty)
        total_paid == TotalPaid(data, buy, food, bounty)
        percent_paid == PercentPaid(total_paid, total_pool)
    IN  IF percent_paid.den = 0
        THEN SummaryOnError(shown)
        ELSE [total_pool |-> total_pool,
              total_paid |-> total_paid,
              percent_paid |-> percent_paid,
              color |-> PercentColor(percent_paid),
              active |-> players - EliminatedCount(data),
              payed_out |-> PayedOutCount(data)]


\* what a run of update_pool_summary reads first: self.num_players.get() and,
\* in its loop, the records of self.player_data
SummaryRead(players, data) == [players |-> players, rows |-> Len(data)]

\* update_total_per_player
UpdateTotalPerPlayer(buy_var, food_var, bounty_var) ==
    safe_get_value(buy_var, 0) + safe_get_value(food_var, 0)
        + safe_get_value(bounty_var, 0)

(***************************************************************************)
(* List objects                                                            *)
(***************************************************************************)
\* an identity no reference in keep holds (the smallest, to have one name
\* for each shape of the heap)
Alloc(keep) ==
    CHOOSE id \in ListIds \ keep : \A other \in ListIds \ keep : id <= other

\* (mutant) the list itself is handed over, no copy is made
NoCopy(list, keep) == list

\* list.copy(): the identity of the new list object, whose contents the
\* handler sets to those of list
CopyOf(list, keep) == Alloc(keep)

\* the heap once the lists no reference in keep holds are collected
Collect(h, keep) == [id \in ListIds |-> IF id \in keep THEN h[id] ELSE <<>>]

\* the references a WeightsWindow object holds, while the main window holds it
WindowRefs == IF ww_current_weights = 0 THEN {} ELSE {ww_current_weights}

\* create_weight_entries: one IntVar per weight, holding the weight
CreateWeightEntries(weights) == [i \in 1..Len(weights) |-> <<weights[i]>>]

\* (mutant) a weight of 0 passes the test
WeightAcceptedFromZero(new_weight) == new_weight >= 0

\* on_weight_change accepts only a positive weight
WeightAccepted(new_weight) == new_weight > 0

\* (mutant) the new weight lands in the first position whatever the index
SetWeightAtFirst(weights, index, new_weight) == [weights EXCEPT ![1] = new_weight]

\* self.current_weights[index] = new_weight (index from 1 here)
SetWeight(weights, index, new_weight) == [weights EXCEPT ![index] = new_weight]

\* (mutant) the last position can be removed too
CanRemoveTheLast(weights) == Len(weights) > 0

\* remove_position keeps the last remaining position
CanRemove(weights) == Len(weights) > 1

(***************************************************************************)
(* The state after PokerPayoutCalculator.__init__                          *)
(***************************************************************************)
ProgramInit(duration) ==
    /\ num_players = InitPlayers
    /\ buy_in = <<InitBuyIn>>
    /\ food_per_player = <<InitFood>>
    /\ bounty_per_player = <<InitBounty>>
    /\ default_weights = 1
    /\ current_weights = 2
    /\ heap = [id \in ListIds |-> IF id \in {1, 2} THEN DefaultWeights ELSE <<>>]
    /\ weights_window = "None"
    /\ ww_current_weights = 0
    /\ weight_entries = <<>>
    /\ player_data = UpdatePlayerData(<<>>, InitPlayers)
    /\ results = CalculatePayouts(InitPlayers, <<InitBuyIn>>, <<InitFood>>,
                                  <<InitBounty>>, DefaultWeights)
    /\ summary = UpdatePoolSummary(LabelsAtSetup, InitPlayers, <<InitBuyIn>>,
                                   <<InitFood>>, <<InitBounty>>,
                                   UpdatePlayerData(<<>>, InitPlayers))
    /\ summary_runs = <<>>
    /\ summary_reads = <<>>
    /\ total_per_player_label = InitBuyIn + InitFood + InitBounty
    /\ player_count_label = InitPlayers
    /\ timer_running = FALSE
    /\ timer_job = 0
    /\ pending = <<>>
    /\ timer_direction = "countdown"
    /\ game_duration = <<duration>>
    /\ current_time = duration * 60
    /\ last = [op |-> "__init__", ok |-> TRUE]
    /\ steps = 0

Init == ProgramInit(InitDuration)

(***************************************************************************)
(* The handlers of the main window                                         *)
(***************************************************************************)
\* the values the slider is released at
SliderValues == {SliderMin, Min(SliderMax, MaxPlayers)}

\* the texts typed into a money entry: a number, or something that is none
MoneyTexts == {<<>>} \cup {<<v>> : v \in (0 - 1)..MaxMoney}

\* on_value_change, the write trace of the four variables
OnValueChange ==
    /\ results' = CalculatePayouts(num_players', buy_in', food_per_player',
                                   bounty_per_player', heap[current_weights])
    /\ summary' = UpdatePoolSummary(summary, num_players', buy_in',
                                    food_per_player', bounty_per_player',
                                    player_data)
    /\ summary_runs' = <<summary'>>
    /\ summary_reads' = <<SummaryRead(num_players', player_data)>>
    /\ total_per_player_label' =
           UpdateTotalPerPlayer(buy_in', food_per_player', bounty_per_player')
    /\ UNCHANGED player_count_label

\* the user edits the buy-in entry
OnBuyInEdit ==
    \E text \in MoneyTexts :
        /\ buy_in' = text
        /\ UNCHANGED <<num_players, food_per_player, bounty_per_player>>
        /\ OnValueChange
        /\ last' = [op |-> "on_value_change", ok |-> TRUE]
        /\ UNCHANGED <<weightVars, ledgerVars, timerVars>>

\* the user edits the food entry
OnFoodEdit ==
    \E text \in MoneyTexts :
        /\ food_per_player' = text
        /\ UNCHANGED <<num_players, buy_in, bounty_per_player>>
        /\ OnValueChange
        /\ last' = [op |-> "on_value_change", ok |-> TRUE]
        /\ UNCHANGED <<weightVars, ledgerVars, timerVars>>

\* the user edits the bounty entry
OnBountyEdit ==
    \E text \in MoneyTexts :
        /\ bounty_per_player' = text
        /\ UNCHANGED <<num_players, buy_in, food_per_player>>
        /\ OnValueChange
        /\ last' = [op |-> "on_value_change", ok |-> TRUE]
        /\ UNCHANGED <<weightVars, ledgerVars, timerVars>>

\* on_player_slider_release -> on_player_change: the write of num_players runs
\* on_value_change (with the ledger not yet resized), then the ledger is
\* resized, the bank display and its summary rebuilt and the payouts computed
OnPlayerSliderRelease ==
    \E value \in SliderValues :
        /\ num_players' = value
        /\ UNCHANGED <<buy_in, food_per_player, bounty_per_player>>
        /\ player_data' = UpdatePlayerData(player_data, value)
        /\ results' = CalculatePayouts(value, buy_in, food_per_player,
                                       bounty_per_player, heap[current_weights])
        /\ LET first == UpdatePoolSummary(summary, value, buy_in, food_per_player,
                                           bounty_per_player, player_data)
           IN  /\ summary' = UpdatePoolSummary(first, value, buy_in,
                                               food_per_player, bounty_per_player,
                                               player_data')
               /\ summary_runs' = <<first, summary'>>
               /\ summary_reads' = <<SummaryRead(value, player_data),
                                     SummaryRead(value, player_data')>>
        /\ total_per_player_label' =
               UpdateTotalPerPlayer(buy_in, food_per_player, bounty_per_player)
        /\ player_count_label' = value
        /\ last' = [op |-> "on_player_change", ok |-> TRUE]
        /\ UNCHANGED <<weightVars, timerVars>>

\* on_player_slider_drag: the label follows the slider; num_players, the
\* ledger, the plan and the summary wait for the release
OnPlayerSliderDrag ==
    \E value \in SliderValues :
        /\ player_count_label' = value
        /\ last' = [op |-> "on_player_slider_drag", ok |-> TRUE]
        /\ UNCHANGED <<results, summary, summary_runs, summary_reads,
                       total_per_player_label>>
        /\ UNCHANGED <<cfgVars, weightVars, ledgerVars, timerVars>>

(***************************************************************************)
(* The handlers of the bank rows                                           *)
(***************************************************************************)
\* the rows whose widgets the user works on: the last one
EditedRows == {i \in 1..Len(player_data) : i = Len(player_data)}

\* the names typed into a name entry
TypedNames == {"Ann"}

PaymentFields == {"buy_in", "food", "bounty"}

\* the summary is recomputed from the ledger as the handler leaves it
SummaryAfterClick ==
    /\ summary' = UpdatePoolSummary(summary, num_players, buy_in,
                                    food_per_player, bounty_per_player,
                                    player_data')
    /\ summary_runs' = <<summary'>>
    /\ summary_reads' = <<SummaryRead(num_players, player_data')>>
    /\ UNCHANGED <<results, total_per_player_label, player_count_label>>

\* a click on the buy-in, food or bounty checkbox of a row
PaymentCheckboxClick ==
    \E i \in EditedRows, field \in PaymentFields :
        /\ player_data' = [player_data EXCEPT
                              ![i] = OnCheckboxChange(Toggle(@, field))]
        /\ SummaryAfterClick
        /\ last' = [op |-> "on_checkbox_change", ok |-> TRUE]
        /\ UNCHANGED <<cfgVars, weightVars, timerVars>>

\* a click on the 'All' checkbox of a row
AllCheckboxClick ==
    \E i \in EditedRows :
        /\ player_data' = [player_data EXCEPT
                              ![i] = OnAllCheckboxChange(Toggle(@, "all"))]
        /\ SummaryAfterClick
        /\ last' = [op |-> "on_all_checkbox_change", ok |-> TRUE]
        /\ UNCHANGED <<cfgVars, weightVars, timerVars>>

\* a click on the eliminated checkbox of a row
EliminatedCheckboxClick ==
    \E i \in EditedRows :
        /\ player_data' = [player_data EXCEPT ![i] = Toggle(@, "eliminated")]
        /\ SummaryAfterClick
        /\ last' = [op |-> "eliminated", ok |-> TRUE]
        /\ UNCHANGED <<cfgVars, weightVars, timerVars>>

\* a click on the payed-out checkbox of a row
PayedOutCheckboxClick ==
    \E i \in EditedRows :
        /\ player_data' = [player_data EXCEPT ![i] = Toggle(@, "payed_out")]
        /\ SummaryAfterClick
        /\ last' = [op |-> "payed_out", ok |-> TRUE]
        /\ UNCHANGED <<cfgVars, weightVars, timerVars>>

\* on_player_name_change: the user edits the name entry of a row
OnPlayerNameChange ==
    \E i \in EditedRows, new_name \in TypedNames :
        /\ player_data' = [player_data EXCEPT ![i].name = new_name]
        /\ last' = [op |-> "on_player_name_change", ok |-> TRUE]
        /\ UNCHANGED <<cfgVars, weightVars, displayVars, timerVars>>

(***************************************************************************)
(* The weights: the main window's handlers                                 *)
(***************************************************************************)
\* (mutant) the handler changes the weights and leaves the plan as it is
PayoutsLeftAfterWeights == UNCHANGED displayVars

\* calculate_payouts, run by a handler that leaves the inputs in cfgVars alone
PayoutsAfterWeights ==
    /\ results' = CalculatePayouts(num_players, buy_in, food_per_player,
                                   bounty_per_player, heap'[current_weights'])
    /\ UNCHANGED <<summary, summary_runs, summary_reads, total_per_player_label,
                   player_count_label>>

\* open_weights_window: lift the window if there is one, else build a
\* WeightsWindow, which takes a copy of the list it is given
OpenWeightsWindow ==
    /\ IF weights_window = "open"
       THEN UNCHANGED <<heap, ww_current_weights, weight_entries, weights_window>>
       ELSE LET copy == CopyOf(current_weights, {default_weights, current_weights})
            IN  /\ heap' = Collect([heap EXCEPT ![copy] = heap[current_weights]],
                                   {default_weights, current_weights, copy})
                /\ ww_current_weights' = copy
                /\ weight_entries' = CreateWeightEntries(heap[current_weights])
                /\ weights_window' = "open"
    /\ last' = [op |-> "open_weights_window", ok |-> weights_window # "open"]
    /\ UNCHANGED <<default_weights, current_weights>>
    /\ UNCHANGED <<cfgVars, ledgerVars, displayVars, timerVars>>

\* the Done button (window.destroy): winfo_exists() is false from here on
DestroyWeightsWindow ==
    /\ weights_window = "open"
    /\ weights_window' = "destroyed"
    /\ last' = [op |-> "destroy", ok |-> TRUE]
    /\ UNCHANGED <<heap, default_weights, current_weights, ww_current_weights,
                   weight_entries>>
    /\ UNCHANGED <<cfgVars, ledgerVars, displayVars, timerVars>>

\* (mutant) the reset copies the list that is current already
ResetListFromCurrent(h) == h[current_weights]

\* the list reset_weights makes current: a copy of the default list
ResetList(h) == h[default_weights]

\* reset_weights: a copy of the default list becomes current; a window that
\* exists takes a copy of that (update_weights_display) and rebuilds its entries
ResetWeights ==
    /\ LET copy == CopyOf(default_weights, {default_weights} \cup WindowRefs)
           h1 == [heap EXCEPT ![copy] = ResetList(heap)]
       IN  /\ current_weights' = copy
           /\ IF weights_window = "open"
              THEN LET copy2 == CopyOf(copy, {default_weights, copy})
                   IN  /\ heap' = Collect([h1 EXCEPT ![copy2] = h1[copy]],
                                          {default_weights, copy, copy2})
                       /\ ww_current_weights' = copy2
                       /\ weight_entries' = CreateWeightEntries(h1[copy])
              ELSE /\ heap' = Collect(h1, {default_weights, copy} \cup WindowRefs)
                   /\ UNCHANGED <<ww_current_weights, weight_entries>>
    /\ PayoutsAfterWeights
    /\ last' = [op |-> "reset_weights", ok |-> TRUE]
    /\ UNCHANGED <<default_weights, weights_window>>
    /\ UNCHANGED <<cfgVars, ledgerVars, timerVars>>

(***************************************************************************)
(* The weights: the editor window's handlers                               *)
(***************************************************************************)
\* the texts typed into a weight entry: an integer, or something that is none
WeightTexts == {<<>>} \cup {<<v>> : v \in (0 - 1)..MaxWeight}

\* the entries the user types into
EditedEntries == {i \in 1..Len(weight_entries) : i <= MaxEditIdx}

\* (mutant) the editor changes its own list and hands nothing over
UpdateCallbackDropped(h) ==
    /\ heap' = Collect(h, {default_weights, current_weights, ww_current_weights})
    /\ UNCHANGED current_weights
    /\ PayoutsAfterWeights

\* update_callback(self.current_weights.copy()) -> update_weights_callback:
\* a copy of the editor's list (h is the heap after its in-place change)
\* becomes the main window's list, and the payouts are computed from it
UpdateCallback(h) ==
    LET copy == CopyOf(ww_current_weights, {default_weights, ww_current_weights})
    IN  /\ heap' = Collect([h EXCEPT ![copy] = h[ww_current_weights]],
                           {default_weights, ww_current_weights, copy})
        /\ current_weights' = copy
        /\ PayoutsAfterWeights

\* on_weight_change, the write trace of an entry's IntVar
OnWeightChange ==
    /\ weights_window = "open"
    /\ \E index \in EditedEntries, text \in WeightTexts :
        /\ weight_entries' = [weight_entries EXCEPT ![index] = text]
        /\ IF text # <<>> /\ WeightAccepted(text[1])
           THEN /\ UpdateCallback([heap EXCEPT ![ww_current_weights] =
                                               SetWeight(@, index, text[1])])
                /\ last' = [op |-> "on_weight_change", ok |-> TRUE]
           ELSE /\ UNCHANGED <<heap, current_weights, displayVars>>
                /\ last' = [op |-> "on_weight_change", ok |-> FALSE]
    /\ UNCHANGED <<default_weights, ww_current_weights, weights_window>>
    /\ UNCHANGED <<cfgVars, ledgerVars, timerVars>>

\* add_position: append a weight of 1 in place, rebuild the entries, hand over
AddPosition ==
    /\ weights_window = "open"
    /\ Len(heap[ww_current_weights]) < MaxLen
    /\ LET h == [heap EXCEPT ![ww_current_weights] = Append(@, NewPositionWeight)]
       IN  /\ weight_entries' = CreateWeightEntries(h[ww_current_weights])
           /\ UpdateCallback(h)
    /\ last' = [op |-> "add_position", ok |-> TRUE]
    /\ UNCHANGED <<default_weights, ww_current_weights, weights_window>>
    /\ UNCHANGED <<cfgVars, ledgerVars, timerVars>>

\* remove_position: pop the last weight in place unless it is the only one
RemovePosition ==
    /\ weights_window = "open"
    /\ IF CanRemove(heap[ww_current_weights])
       THEN LET h == [heap EXCEPT ![ww_current_weights] =
                                     SubSeq(@, 1, Len(@) - 1)]
            IN  /\ weight_entries' = CreateWeightEntries(h[ww_current_weights])
                /\ UpdateCallback(h)
                /\ last' = [op |-> "remove_position", ok |-> TRUE]
       ELSE /\ UNCHANGED <<heap, current_weights, weight_entries, displayVars>>
            /\ last' = [op |-> "remove_position", ok |-> FALSE]
    /\ UNCHANGED <<default_weights, ww_current_weights, weights_window>>
    /\ UNCHANGED <<cfgVars, ledgerVars, timerVars>>

(***************************************************************************)
(* Specifications                                                          *)
(***************************************************************************)
\* mainloop runs one handler at a time; a specification of one part of the
\* program leaves the calls uncounted
Uncounted(handler) == handler /\ UNCHANGED steps

\* a run of the whole program is followed for MaxSteps handler calls
Counted(handler) == steps < MaxSteps /\ handler /\ steps' = steps + 1

\* the ledger: checkbox clicks, renames and player-count changes
NextLedger ==
    \/ Uncounted(PaymentCheckboxClick)
    \/ Uncounted(AllCheckboxClick)
    \/ Uncounted(EliminatedCheckboxClick)
    \/ Uncounted(PayedOutCheckboxClick)
    \/ Uncounted(OnPlayerNameChange)
    \/ Uncounted(OnPlayerSliderRelease)

SpecLedger == Init /\ [][NextLedger]_vars

\* the weights: the editor window, and the reset of the main window
NextWeights ==
    \/ Uncounted(OpenWeightsWindow)
    \/ Uncounted(DestroyWeightsWindow)
    \/ Uncounted(ResetWeights)
    \/ Uncounted(OnWeightChange)
    \/ Uncounted(AddPosition)
    \/ Uncounted(RemovePosition)

SpecWeights == Init /\ [][NextWeights]_vars

\* the tournament configuration: the money entries and the player slider
NextConfig ==
    \/ Uncounted(OnBuyInEdit)
    \/ Uncounted(OnFoodEdit)
    \/ Uncounted(OnBountyEdit)
    \/ Uncounted(OnPlayerSliderDrag)
    \/ Uncounted(OnPlayerSliderRelease)

SpecConfig == Init /\ [][NextConfig]_vars

\* the whole program: every handler that changes an input of the payout plan
\* or of the pool summary
NextProgram ==
    \/ Counted(OnBuyInEdit)
    \/ Counted(OnFoodEdit)
    \/ Counted(OnBountyEdit)
    \/ Counted(OnPlayerSliderDrag)
    \/ Counted(OnPlayerSliderRelease)
    \/ Counted(PaymentCheckboxClick)
    \/ Counted(AllCheckboxClick)
    \/ Counted(EliminatedCheckboxClick)
    \/ Counted(PayedOutCheckboxClick)
    \/ Counted(OnPlayerNameChange)
    \/ Counted(OpenWeightsWindow)
    \/ Counted(DestroyWeightsWindow)
    \/ Counted(ResetWeights)
    \/ Counted(OnWeightChange)
    \/ Counted(AddPosition)
    \/ Counted(RemovePosition)

SpecProgram == Init /\ [][NextProgram]_vars

\* the payout calculation as a function of its inputs: any player count from
\* 1, the money entries, and a list of positive weights
CalcWeightLists ==
    {Prefix(DefaultWeights, k) : k \in 1..Len(DefaultWeights)}
        \cup UNION {[1..n -> 1..MaxCalcWeight] : n \in 1..MaxCalcLen}

CalcInitOver(lists) ==
    /\ num_players \in 1..MaxCalcPlayers
    /\ buy_in \in MoneyTexts \cup {<<InitBuyIn>>}
    /\ food_per_player \in {<<0>>, <<InitFood>>}
    /\ bounty_per_player \in {<<0>>, <<InitBounty>>}
    /\ default_weights = 1
    /\ current_weights = 2
    /\ \E weights \in lists :
           heap = [id \in ListIds |-> IF id = 1 THEN DefaultWeights
                                      ELSE IF id = 2 THEN weights ELSE <<>>]
    /\ weights_window = "None"
    /\ ww_current_weights = 0
    /\ weight_entries = <<>>
    /\ player_data = UpdatePlayerData(<<>>, num_players)
    /\ results = <<>>
    /\ summary = UpdatePoolSummary(LabelsAtSetup, num_players, buy_in,
                                   food_per_player, bounty_per_player,
                                   player_data)
    /\ summary_runs = <<>>
    /\ summary_reads = <<>>
    /\ total_per_player_label =
           UpdateTotalPerPlayer(buy_in, food_per_player, bounty_per_player)
    /\ player_count_label = num_players
    /\ timer_running = FALSE
    /\ timer_job = 0
    /\ pending = <<>>
    /\ timer_direction = "countdown"
    /\ game_duration = <<InitDuration>>
    /\ current_time = InitDuration * 60
    /\ last = [op |-> "__init__", ok |-> TRUE]
    /\ steps = 0

CalcInit == CalcInitOver(CalcWeightLists)

\* calculate_payouts on the current inputs
Calculate ==
    /\ results' = CalculatePayouts(num_players, buy_in, food_per_player,
                                   bounty_per_player, heap[current_weights])
    /\ last' = [op |-> "calculate_payouts", ok |-> TRUE]
    /\ UNCHANGED <<summary, summary_runs, summary_reads, total_per_player_label,
                   player_count_label>>
    /\ UNCHANGED <<cfgVars, weightVars, ledgerVars, timerVars>>

SpecCalc == CalcInit /\ [][Uncounted(Calculate)]_vars

\* the payout calculation on lists the editor never hands over: weights of 0,
\* which the guard of total_weight is there for
GuardWeightLists == UNION {[1..n -> 0..MaxCalcWeight] : n \in 1..MaxCalcLen}

GuardInit == CalcInitOver(GuardWeightLists)

SpecCalcGuard == GuardInit /\ [][Uncounted(Calculate)]_vars

\* the pool summary as a function of its inputs: the money entries and a
\* ledger whose first rows carry any checkbox values (with 'All' in step)
CheckedRows ==
    {r \in [buy_in : BOOLEAN, food : BOOLEAN, bounty : BOOLEAN, all : BOOLEAN,
            eliminated : BOOLEAN, payed_out : BOOLEAN] : r.all = AllChecked(r)}

SummaryLedgers(players) ==
    LET k == Min(MaxPaidRows, players)
    IN  {[i \in 1..players |->
             IF i <= k
             THEN [name |-> NewPlayer(i).name, buy_in |-> f[i].buy_in,
                   food |-> f[i].food, bounty |-> f[i].bounty, all |-> f[i].all,
                   eliminated |-> f[i].eliminated, payed_out |-> f[i].payed_out]
             ELSE NewPlayer(i)] : f \in [1..k -> CheckedRows]}

SummaryInit ==
    /\ num_players = SliderMin
    /\ buy_in \in MoneyTexts \cup {<<InitBuyIn>>}
    /\ food_per_player \in {<<0 - 1>>, <<0>>, <<InitFood>>}
    /\ bounty_per_player \in {<<0>>, <<InitBounty>>}
    /\ default_weights = 1
    /\ current_weights = 2
    /\ heap = [id \in ListIds |-> IF id \in {1, 2} THEN DefaultWeights ELSE <<>>]
    /\ weights_window = "None"
    /\ ww_current_weights = 0
    /\ weight_entries = <<>>
    /\ player_data \in SummaryLedgers(num_players)
    /\ results = CalculatePayouts(num_players, buy_in, food_per_player,
                                  bounty_per_player, DefaultWeights)
    /\ summary = LabelsAtSetup
    /\ summary_runs = <<>>
    /\ summary_reads = <<>>
    /\ total_per_player_label =
           UpdateTotalPerPlayer(buy_in, food_per_player, bounty_per_player)
    /\ player_count_label = num_players
    /\ timer_running = FALSE
    /\ timer_job = 0
    /\ pending = <<>>
    /\ timer_direction = "countdown"
    /\ game_duration = <<InitDuration>>
    /\ current_time = InitDuration * 60
    /\ last = [op |-> "__init__", ok |-> TRUE]
    /\ steps = 0

\* update_pool_summary on the current inputs
Summarize ==
    /\ summary' = UpdatePoolSummary(summary, num_players, buy_in, food_per_player,
                                    bounty_per_player, player_data)
    /\ summary_runs' = <<summary'>>
    /\ summary_reads' = <<SummaryRead(num_players, player_data)>>
    /\ last' = [op |-> "update_pool_summary", ok |-> TRUE]
    /\ UNCHANGED <<results, total_per_player_label, player_count_label>>
    /\ UNCHANGED <<cfgVars, weightVars, ledgerVars, timerVars>>

SpecSummary == SummaryInit /\ [][Uncounted(Summarize)]_vars

(***************************************************************************)
(* The timer                                                               *)
(***************************************************************************)
\* the part of the state the timer methods work on
TimerNow ==
    [current_time |-> current_time, timer_running |-> timer_running,
     timer_job |-> timer_job, pending |-> pending]

SetTimer(t) ==
    /\ current_time' = t.current_time
    /\ timer_running' = t.timer_running
    /\ timer_job' = t.timer_job
    /\ pending' = t.pending

\* root.after_cancel(id): the call with that id, if still scheduled, is dropped
AfterCancel(jobs, id) == SelectSeq(jobs, LAMBDA job : job # id)

\* root.after(1000, self.update_timer): a new id, due after the calls
\* already scheduled (all of them are due 1000 ms after they were scheduled)
After(t) ==
    LET free == (1..NumJobs) \ {t.pending[i] : i \in 1..Len(t.pending)}
        id == CHOOSE job \in free : \A other \in free : job <= other
    IN  [t EXCEPT !.pending = Append(@, id), !.timer_job = id]

\* pause_timer: timer_job holds the id of the call scheduled last, or 0 (None)
PauseTimer(t) ==
    [t EXCEPT !.timer_running = FALSE,
              !.pending = IF t.timer_job # 0 THEN AfterCancel(@, t.timer_job) ELSE @]

\* (mutant) a running timer counts on past the end of the game
CountPastTheEnd(t, direction, duration) ==
    LET t1 == [t EXCEPT !.current_time =
                            IF direction = "countdown" THEN @ - 1 ELSE @ + 1]
    IN  IF duration = <<>> THEN t1 ELSE After(t1)

\* the body of update_timer for a running timer: with a game duration entry
\* that holds no number, game_duration.get() raises TclError (in the count-up
\* branch, or in update_timer_display) and the method is left before it
\* schedules the next call
CountOneSecond(t, direction, duration) ==
    IF direction = "countdown"
    THEN LET t1 == [t EXCEPT !.current_time = @ - 1]
             t2 == IF t1.current_time <= 0
                   THEN PauseTimer([t1 EXCEPT !.current_time = 0])
                   ELSE t1
         IN  IF duration = <<>> THEN t2 ELSE After(t2)
    ELSE LET t1 == [t EXCEPT !.current_time = @ + 1]
         IN  IF duration = <<>> THEN t1
             ELSE LET max_time == duration[1] * 60
                      t2 == IF t1.current_time >= max_time
                            THEN PauseTimer([t1 EXCEPT !.current_time = max_time])
                            ELSE t1
                  IN  After(t2)

\* (mutant) the scheduled call counts whether the timer is running or not
UpdateTimerUngated(t, direction, duration) ==
    CountOneSecond(t, direction, duration)

\* update_timer, called by start_timer or as a scheduled call
UpdateTimer(t, direction, duration) ==
    IF t.timer_running THEN CountOneSecond(t, direction, duration) ELSE t

\* start_timer
StartTimer(t, direction, duration) ==
    UpdateTimer([t EXCEPT !.timer_running = TRUE], direction, duration)

\* reset_timer: in the countdown branch game_duration.get() raises TclError for
\* an entry that holds no number, after pause_timer has run
ResetTimer(t, direction, duration) ==
    LET t1 == PauseTimer(t)
    IN  IF direction = "countdown"
        THEN IF duration = <<>> THEN t1
             ELSE [t1 EXCEPT !.current_time = duration[1] * 60]
        ELSE [t1 EXCEPT !.current_time = 0]

\* a count-up is followed up to the longest game duration (it knows no end
\* while the game duration entry holds no number)
TimeFollowed == current_time <= MaxDuration * 60

\* the texts typed into the game duration entry
DurationTexts == {<<>>} \cup {<<v>> : v \in 0..MaxDuration}

\* the Start/Pause button: toggle_timer
ToggleTimerClick ==
    /\ IF timer_running
       THEN /\ SetTimer(PauseTimer(TimerNow))
            /\ last' = [op |-> "pause_timer", ok |-> TRUE]
       ELSE /\ Len(pending) < NumJobs
            /\ TimeFollowed
            /\ SetTimer(StartTimer(TimerNow, timer_direction, game_duration))
            /\ last' = [op |-> "start_timer", ok |-> game_duration # <<>>]
    /\ UNCHANGED <<timer_direction, game_duration>>
    /\ UNCHANGED <<cfgVars, weightVars, ledgerVars, displayVars>>

\* the Reset button: reset_timer
ResetTimerClick ==
    /\ SetTimer(ResetTimer(TimerNow, timer_direction, game_duration))
    /\ last' = [op |-> "reset_timer",
                ok |-> ~(timer_direction = "countdown" /\ game_duration = <<>>)]
    /\ UNCHANGED <<timer_direction, game_duration>>
    /\ UNCHANGED <<cfgVars, weightVars, ledgerVars, displayVars>>

\* a click on a mode radio button: it writes timer_direction, then reset_timer
ModeSwitch ==
    \E direction \in {"countdown", "countup"} :
        /\ timer_direction' = direction
        /\ SetTimer(ResetTimer(TimerNow, direction, game_duration))
        /\ last' = [op |-> "mode_switch",
                    ok |-> ~(direction = "countdown" /\ game_duration = <<>>)]
        /\ UNCHANGED game_duration
        /\ UNCHANGED <<cfgVars, weightVars, ledgerVars, displayVars>>

\* the user edits the game duration entry: no handler runs
OnDurationEdit ==
    \E text \in DurationTexts :
        /\ game_duration' = text
        /\ last' = [op |-> "game_duration", ok |-> TRUE]
        /\ UNCHANGED <<current_time, timer_running, timer_job, timer_direction,
                       pending>>
        /\ UNCHANGED <<cfgVars, weightVars, ledgerVars, displayVars>>

\* the event loop runs the scheduled call that is due first
Tick ==
    /\ pending # <<>>
    /\ TimeFollowed
    /\ SetTimer(UpdateTimer([TimerNow EXCEPT !.pending = Tail(@)],
                            timer_direction, game_duration))
    /\ last' = [op |-> "update_timer", ok |-> game_duration # <<>>]
    /\ UNCHANGED <<timer_direction, game_duration>>
    /\ UNCHANGED <<cfgVars, weightVars, ledgerVars, displayVars>>

\* the timer from the state the program is in once the game duration entry is
\* set to a number of minutes and Reset is pressed
TimerInit == \E duration \in 1..MaxDuration : ProgramInit(duration)

NextTimer ==
    \/ Uncounted(ToggleTimerClick)
    \/ Uncounted(ResetTimerClick)
    \/ Uncounted(ModeSwitch)
    \/ Uncounted(OnDurationEdit)
    \/ Uncounted(Tick)

SpecTimer == TimerInit /\ [][NextTimer]_vars

\* the timer with the game duration entry left alone
NextTimerFixed ==
    \/ Uncounted(ToggleTimerClick)
    \/ Uncounted(ResetTimerClick)
    \/ Uncounted(ModeSwitch)
    \/ Uncounted(Tick)

SpecTimerFixed == TimerInit /\ [][NextTimerFixed]_vars

(***************************************************************************)
(* Claims                                                                  *)
(***************************************************************************)
\* the plan on display, when there is one
PlanShown == results # <<>>
ShownRows == results[1].rows

\* C1: for every player count >= 1 and every non-empty weight list, the
\* number of paying positions calculate_payouts uses is
\* max(1, min(players // 3, len(weights))): at least 1, at most the number of
\* weights, 1 for 3 players with the default weights, 3 for 10 players with
\* the weights [35, 20, 15].
C1_PayingPositions ==
    (PlanShown /\ num_players >= 1 /\ Len(heap[current_weights]) >= 1) =>
        LET weights == heap[current_weights]
            positions == Len(ShownRows)
        IN  /\ positions = Max(1, Min(num_players \div 3, Len(weights)))
            /\ positions >= 1
            /\ positions <= Len(weights)
            /\ (num_players = 3 /\ weights = <<35, 20, 15, 10, 8, 6, 3, 2, 1>>)
                   => positions = 1
            /\ (num_players = 10 /\ weights = <<35, 20, 15>>) => positions = 3

\* C1's witness: 10 players and the weights [35, 20, 15] pay 3 positions
C1_Witness ==
    /\ PlanShown
    /\ last.op = "calculate_payouts"
    /\ num_players = 10
    /\ heap[current_weights] = <<35, 20, 15>>
    /\ Len(ShownRows) = 3

\* C2: for players >= 1, a buy-in >= 0 and positive weights, every payout is
\* the prize pool times the position's weight over one divisor, the sum of
\* the weights of the positions that are paid; so the payouts sum to the
\* prize pool players x buy-in exactly, and nothing is left unallocated.
C2_PayoutsSumToPrizePool ==
    (/\ PlanShown
     /\ num_players >= 1
     /\ safe_get_value(buy_in, 0) >= 0
     /\ \A i \in 1..Len(heap[current_weights]) : heap[current_weights][i] > 0) =>
        LET prize_pool == num_players * safe_get_value(buy_in, 0)
            paid == SumSeq([i \in 1..Len(ShownRows) |-> ShownRows[i].weight])
            nums == SumSeq([i \in 1..Len(ShownRows) |-> ShownRows[i].payout.num])
        IN  /\ paid > 0
            /\ \A i \in 1..Len(ShownRows) :
                   /\ ShownRows[i].payout.den = paid
                   /\ ShownRows[i].payout.num = ShownRows[i].weight * prize_pool
            /\ nums = prize_pool * paid
            /\ nums <= prize_pool * paid

\* C2's witness: 9 players at 20 with the default weights pay 35/70, 20/70
\* and 15/70 of 180
C2_Witness ==
    /\ PlanShown
    /\ last.op = "calculate_payouts"
    /\ num_players = 9
    /\ buy_in = <<20>>
    /\ heap[current_weights] = <<35, 20, 15, 10, 8, 6, 3, 2, 1>>
    /\ [i \in 1..Len(ShownRows) |-> ShownRows[i].payout] =
           <<[num |-> 35 * 180, den |-> 70], [num |-> 20 * 180, den |-> 70],
             [num |-> 15 * 180, den |-> 70]>>

\* C3: after any sequence of payment-checkbox clicks, 'All' clicks and
\* player-count changes, every player record has
\* all = (buy_in and food and bounty).
C3_AllInSync ==
    \A i \in 1..Len(player_data) :
        player_data[i].all <=>
            (player_data[i].buy_in /\ player_data[i].food /\ player_data[i].bounty)

\* C3's witness: a payment-checkbox click has just made the three flags, and
\* with them 'all', true
C3_Witness ==
    /\ last.op = "on_checkbox_change"
    /\ \E i \in 1..Len(player_data) :
           /\ player_data[i].buy_in /\ player_data[i].food /\ player_data[i].bounty
           /\ player_data[i].all

\* C4: after any sequence of weight edits (accepted or rejected), added and
\* removed positions and resets, the list used for payouts has at least one
\* element and only positive elements.
C4_WeightsPositive ==
    /\ Len(heap[current_weights]) >= 1
    /\ \A i \in 1..Len(heap[current_weights]) : heap[current_weights][i] > 0

\* C4's witness: the edit of an entry to 0 has just been rejected
C4_Witness ==
    /\ last = [op |-> "on_weight_change", ok |-> FALSE]
    /\ \E i \in 1..Len(weight_entries) :
           weight_entries[i] = <<0>> /\ heap[current_weights][i] > 0

\* C5: a change of the player count from N to M > N keeps the first N
\* records as they are and appends M - N records with every flag false and
\* the name "Player k" at position k; a change to M < N keeps exactly the
\* first M records, as they are.
C5_Resize ==
    [][num_players' # num_players =>
          LET N == num_players
              M == num_players'
          IN  /\ Len(player_data') = M
              /\ \A i \in 1..Min(N, M) : player_data'[i] = player_data[i]
              /\ \A k \in (N + 1)..M :
                     player_data'[k] =
                         [name |-> "Player " \o ToString(k),
                          buy_in |-> FALSE, food |-> FALSE, bounty |-> FALSE,
                          all |-> FALSE, eliminated |-> FALSE,
                          payed_out |-> FALSE]]_vars

\* C5's witness: the count has just grown from 3 to MaxPlayers behind a
\* renamed, paid third player
C5_Witness ==
    /\ last.op = "on_player_change"
    /\ num_players = MaxPlayers
    /\ player_data[3].name = "Ann"
    /\ player_data[3].all
    /\ player_data[4].name = "Player 4"
    /\ player_data[MaxPlayers].name = "Player " \o ToString(MaxPlayers)
    /\ ~player_data[MaxPlayers].buy_in

\* C6: after every handler, the ledger has as many records as there are
\* players.
C6_LedgerSize == Len(player_data) = num_players

\* C6's witness: the count has just dropped from 9 to the slider's lowest
C6_Witness ==
    /\ last.op = "on_player_change"
    /\ num_players = SliderMin
    /\ Len(player_data) = SliderMin
    /\ summary_runs[1].active = SliderMin

\* C7: the stored default list is [35, 20, 15, 10, 8, 6, 3, 2, 1] in every
\* state, and after reset_weights so is the list used for payouts, whatever
\* was edited, added or removed before.
C7_ResetRestoresDefault ==
    /\ heap[default_weights] = <<35, 20, 15, 10, 8, 6, 3, 2, 1>>
    /\ last.op = "reset_weights" =>
           heap[current_weights] = <<35, 20, 15, 10, 8, 6, 3, 2, 1>>

\* C7's witness: a reset after the editor, closed since, had shortened and
\* edited the list
C7_Witness ==
    /\ last.op = "reset_weights"
    /\ weights_window = "destroyed"
    /\ Len(heap[ww_current_weights]) < 9
    /\ heap[ww_current_weights][1] # 35
    /\ heap[current_weights] = <<35, 20, 15, 10, 8, 6, 3, 2, 1>>

\* the inputs the specification calls invalid
InvalidInput ==
    \/ num_players < 1
    \/ safe_get_value(buy_in, 0) < 0
    \/ safe_get_value(food_per_player, 0) < 0
    \/ safe_get_value(bounty_per_player, 0) < 0
    \/ heap[current_weights] = <<>>

\* C8: the payout computation fails for a player count < 1, a negative
\* buy-in, food or bounty amount, or an empty weight list: no payout plan is
\* produced for such inputs.
C8_InvalidInputRejected == InvalidInput => ~PlanShown

C10_RemoveLast ==
    [][last'.op = "remove_position" =>
          LET before == heap[ww_current_weights]
              after == heap'[ww_current_weights']
          IN  IF Len(before) = 1
              THEN /\ ~last'.ok
                   /\ after = before
                   /\ heap'[current_weights'] = heap[current_weights]
              ELSE /\ last'.ok
                   /\ Len(after) = Len(before) - 1
                   /\ \A j \in 1..Len(after) : after[j] = before[j]
                   /\ heap'[current_weights'] = after]_vars

\* C10's witness: Remove Last has just been rejected on a list of one element
C10_Witness ==
    /\ last = [op |-> "remove_position", ok |-> FALSE]
    /\ weights_window = "open"
    /\ Len(heap[ww_current_weights]) = 1
    /\ Len(heap[current_weights]) = 1

\* the amounts calculate_payouts and update_pool_summary read from the entries
BuyIn == safe_get_value(buy_in, 0)
FoodPerPlayer == safe_get_value(food_per_player, 0)
BountyPerPlayer == safe_get_value(bounty_per_player, 0)

\* C11: for all inputs the plan shows prize pool = players x buy-in, food
\* pool = players x food, bounty pool = players x bounty and total pool = the
\* sum of the three; the total pool of the plan equals the total pool of the
\* ledger summary, players x (buy-in + food + bounty). For 9 players, buy-in
\* 20, food 5, bounty 2: 180, 45, 18 and 243.
C11_Pools ==
    PlanShown =>
        LET pools == results[1].pools
        IN  /\ pools.prize_pool = num_players * BuyIn
            /\ pools.food_pool = num_players * FoodPerPlayer
            /\ pools.bounty_pool = num_players * BountyPerPlayer
            /\ pools.total_pool =
                   pools.prize_pool + pools.food_pool + pools.bounty_pool
            /\ pools.total_pool = summary.total_pool
            /\ summary.total_pool =
                   num_players * (BuyIn + FoodPerPlayer + BountyPerPlayer)
            /\ (num_players = 9 /\ BuyIn = 20 /\ FoodPerPlayer = 5
                    /\ BountyPerPlayer = 2) =>
                   pools = [prize_pool |-> 180, food_pool |-> 45,
                            bounty_pool |-> 18, total_pool |-> 243]

\* the plan and the summary for 9 players, buy-in 20, food 5, bounty 2
C11_Witness ==
    /\ last.op = "calculate_payouts"
    /\ num_players = 9 /\ buy_in = <<20>> /\ food_per_player = <<5>>
    /\ bounty_per_player = <<2>>
    /\ results[1].pools.total_pool = 243
    /\ summary.total_pool = 243

\* the rows of the ledger whose checkbox of the given field is checked
Checked(field) == {i \in 1..Len(player_data) : player_data[i][field]}

\* C12: the total paid the pool summary shows is the sum, over the ledger
\* records, of the buy-in amount where the buy_in box is checked, the food
\* amount where the food box is checked and the bounty amount where the
\* bounty box is checked; the 'all', eliminated and payed_out boxes
\* contribute nothing.
C12_TotalPaid ==
    last.op = "update_pool_summary" =>
        summary.total_paid =
            BuyIn * Cardinality(Checked("buy_in"))
            + FoodPerPlayer * Cardinality(Checked("food"))
            + BountyPerPlayer * Cardinality(Checked("bounty"))

\* player 1 paid buy-in and bounty and is eliminated, player 2 paid all three
\* and is payed out: 22 + 27 of the amounts 20, 5, 2
C12_Witness ==
    /\ last.op = "update_pool_summary"
    /\ buy_in = <<20>> /\ food_per_player = <<5>> /\ bounty_per_player = <<2>>
    /\ Checked("buy_in") = {1, 2} /\ Checked("food") = {2}
    /\ Checked("bounty") = {1, 2} /\ Checked("all") = {2}
    /\ Checked("eliminated") = {1} /\ Checked("payed_out") = {2}
    /\ summary.total_paid = 49

\* the total pool and the total paid of the current inputs and ledger
TotalPoolNow == num_players * (BuyIn + FoodPerPlayer + BountyPerPlayer)
TotalPaidNow ==
    BuyIn * Cardinality(Checked("buy_in"))
    + FoodPerPlayer * Cardinality(Checked("food"))
    + BountyPerPlayer * Cardinality(Checked("bounty"))

C15_ZeroWeights ==
    (PlanShown /\ SumSeq(Prefix(heap[current_weights], Len(ShownRows))) = 0) =>
        \A position \in 1..Len(ShownRows) :
            /\ ShownRows[position].payout.den = 1
            /\ ShownRows[position].payout.num = 0

\* 9 players with a buy-in of 20 and the weights 0, 0, 0: three paying
\* positions, each paid 0 of the prize pool of 180
C15_Witness ==
    /\ last.op = "calculate_payouts"
    /\ num_players = 9 /\ buy_in = <<20>>
    /\ heap[current_weights] = <<0, 0, 0>>
    /\ results[1].pools.prize_pool = 180
    /\ Len(ShownRows) = 3
    /\ \A position \in 1..3 : ShownRows[position].payout = [num |-> 0, den |-> 1]

\* every record but the i-th is the same before and after the step
OthersUnchanged(i) ==
    /\ Len(player_data') = Len(player_data)
    /\ \A j \in 1..Len(player_data) : j # i => player_data'[j] = player_data[j]

\* C16: a click on the 'All' checkbox of a player, toggling it to v, sets
\* that player's buy_in, food, bounty and all to v and leaves that player's
\* eliminated, payed_out and name, and every other record, unchanged.
C16_AllCheckbox ==
    [][last'.op = "on_all_checkbox_change" =>
          \E i \in 1..Len(player_data) :
              LET v == ~player_data[i].all
                  before == player_data[i]
                  after == player_data'[i]
              IN  /\ OthersUnchanged(i)
                  /\ after.all = v /\ after.buy_in = v
                  /\ after.food = v /\ after.bounty = v
                  /\ after.eliminated = before.eliminated
                  /\ after.payed_out = before.payed_out
                  /\ after.name = before.name]_vars

\* 'All' checked for the renamed and eliminated last player: the three
\* payments are set, the name and the eliminated box are kept
C16_Witness ==
    /\ last.op = "on_all_checkbox_change"
    /\ LET player == player_data[Len(player_data)]
       IN  /\ player.all /\ player.buy_in /\ player.food /\ player.bounty
           /\ player.eliminated /\ ~player.payed_out
           /\ player.name = "Ann"

\* C17: a click on the eliminated (payed-out) checkbox of a player changes
\* that one flag of that one record and nothing else in the ledger; a click
\* on a payment checkbox or on 'All' changes no eliminated or payed_out flag.
C17_StatusFlags ==
    [][/\ last'.op = "eliminated" =>
              \E i \in 1..Len(player_data) :
                  /\ OthersUnchanged(i)
                  /\ player_data'[i] = [player_data[i] EXCEPT
                                           !.eliminated = ~player_data[i].eliminated]
       /\ last'.op = "payed_out" =>
              \E i \in 1..Len(player_data) :
                  /\ OthersUnchanged(i)
                  /\ player_data'[i] = [player_data[i] EXCEPT
                                           !.payed_out = ~player_data[i].payed_out]
       /\ last'.op \in {"on_checkbox_change", "on_all_checkbox_change"} =>
              /\ Len(player_data') = Len(player_data)
              /\ \A j \in 1..Len(player_data) :
                     /\ player_data'[j].eliminated = player_data[j].eliminated
                     /\ player_data'[j].payed_out = player_data[j].payed_out
      ]_vars

\* the last player has paid everything and is payed out but not eliminated,
\* the payed-out click being the last one
C17_Witness ==
    /\ last.op = "payed_out"
    /\ LET player == player_data[Len(player_data)]
       IN  /\ player.payed_out /\ ~player.eliminated
           /\ player.all /\ player.buy_in /\ player.food /\ player.bounty

\* the food and bounty entries of a second run of calculate_payouts
OtherMoneyTexts == MoneyTexts \cup {<<InitFood>>, <<InitBounty>>}

\* C18: the payouts depend only on the player count, the buy-in and the
\* weights: a run of calculate_payouts that differs from the one shown only in
\* the food and bounty amounts gives the same number of paying positions and
\* the same payouts; and the bounty per knockout reported (for a positive
\* bounty) is exactly the bounty-per-player amount.
C18_PayoutsIgnoreFoodAndBounty ==
    PlanShown =>
        /\ \A food_var \in OtherMoneyTexts, bounty_var \in OtherMoneyTexts :
               LET other == CalculatePayouts(num_players, buy_in, food_var,
                                             bounty_var, heap[current_weights])
               IN  /\ Len(other[1].rows) = Len(ShownRows)
                   /\ other[1].rows = ShownRows
        /\ BountyPerPlayer > 0 => results[1].bounty_info # <<>>
        /\ results[1].bounty_info # <<>> =>
               results[1].bounty_info[1].bounty_per_knockout = BountyPerPlayer

\* 9 players, buy-in 20, default weights, with food 5 and bounty 2: the three
\* payouts are those of the run with no food and no bounty, 35, 20 and 15
\* seventieths of 180, and the bounty per knockout is 2
C18_Witness ==
    /\ last.op = "calculate_payouts"
    /\ num_players = 9 /\ buy_in = <<20>> /\ food_per_player = <<5>>
    /\ bounty_per_player = <<2>>
    /\ heap[current_weights] = DefaultWeights
    /\ ShownRows = CalculatePayouts(9, <<20>>, <<0>>, <<0>>, DefaultWeights)[1].rows
    /\ ShownRows[1].payout = [num |-> 35 * 180, den |-> 70]
    /\ results[1].bounty_info[1].bounty_per_knockout = 2

\* C19: after every handler returns (slider release or drag, buy-in, food or
\* bounty edit, weight edit, add or remove position, reset weights, open or
\* close the editor, any checkbox click, rename), the plan on display is the
\* plan calculate_payouts computes from the current player count, money
\* entries and weight list, and the summary on display is the one
\* update_pool_summary computes from the current ledger and money entries: no
\* stale plan or summary survives a handler.
C19_DisplayFresh ==
    /\ results = CalculatePayouts(num_players, buy_in, food_per_player,
                                  bounty_per_player, heap[current_weights])
    /\ summary = UpdatePoolSummary(summary, num_players, buy_in, food_per_player,
                                   bounty_per_player, player_data)
    /\ summary.total_pool = TotalPoolNow
    /\ summary.total_paid = TotalPaidNow

\* a buy-in edit, a checkbox click and then an accepted weight edit: the plan
\* pays 1/36 of the prize pool of 9 to the first place and the summary shows
\* 1 paid of 72
C19_Witness ==
    /\ last = [op |-> "on_weight_change", ok |-> TRUE]
    /\ num_players = 9 /\ buy_in = <<1>>
    /\ heap[current_weights] # DefaultWeights
    /\ player_data[9].buy_in
    /\ ShownRows[1].payout = [num |-> 9, den |-> 36]
    /\ summary.total_paid = 1 /\ summary.total_pool = 72

\* C20: the list used for the payouts (self.current_weights), the editor's
\* working list (WeightsWindow.current_weights) and the default list are never
\* the same list object: opening the editor, committing an edit, a reset and
\* the refresh of the editor each hand over a copy; so the default list, which
\* nothing changes in place, keeps its contents whatever the editor does.
C20_NoSharedList ==
    /\ current_weights # default_weights
    /\ ww_current_weights # 0 =>
           /\ ww_current_weights # current_weights
           /\ ww_current_weights # default_weights
    /\ heap[default_weights] = DefaultWeights

\* after a committed edit in the open editor: three list objects, the
\* editor's and the main window's with the same new contents, the default
\* list with its own
C20_Witness ==
    /\ last = [op |-> "on_weight_change", ok |-> TRUE]
    /\ weights_window = "open"
    /\ Cardinality({default_weights, current_weights, ww_current_weights}) = 3
    /\ heap[ww_current_weights] = heap[current_weights]
    /\ heap[current_weights] # heap[default_weights]

\* C21: the timer can be cancelled at any point: once pause_timer or
\* reset_timer (the Reset button or a mode switch) has run, the timer is not
\* running; while it is not running no scheduled update_timer call, whichever
\* calls are still pending, changes current_time or restarts it; and nothing
\* but start_timer makes it run again.
C21_TimerCancellable ==
    [][/\ last'.op \in {"pause_timer", "reset_timer", "mode_switch"} =>
              ~timer_running'
       /\ (last'.op = "update_timer" /\ ~timer_running) =>
              /\ current_time' = current_time
              /\ ~timer_running'
       /\ (~timer_running /\ timer_running') => last'.op = "start_timer"
      ]_vars

\* a scheduled call has run on a paused timer in the middle of a game: the
\* time is where the pause left it and no call is pending any more
C21_Witness ==
    /\ last = [op |-> "update_timer", ok |-> TRUE]
    /\ ~timer_running
    /\ pending = <<>>
    /\ current_time > 0
    /\ current_time < game_duration[1] * 60

\* C22: every run of update_pool_summary, the one started by the write trace
\* of num_players inside on_player_change included, reads a ledger with as
\* many records as the player count it reads; so every summary it writes has
\* 0 <= Active <= players and, for amounts that are not negative, total paid
\* <= total pool and percent paid <= 100.
C22_SummarySeesWholeLedger ==
    \A k \in 1..Len(summary_runs) :
        /\ summary_reads[k].rows = summary_reads[k].players
        /\ summary_runs[k].active >= 0
        /\ summary_runs[k].active <= summary_reads[k].players
        /\ (BuyIn >= 0 /\ FoodPerPlayer >= 0 /\ BountyPerPlayer >= 0) =>
               /\ summary_runs[k].total_paid <= summary_runs[k].total_pool
               /\ summary_runs[k].percent_paid.num <=
                      100 * summary_runs[k].percent_paid.den

\* C23: while a weights editor window exists, after every handler (accepted
\* edit, rejected edit, add position, remove last, reset from the main
\* window) the editor's working list and the main window's list, from which
\* the payouts are computed, hold the same weights position by position.
C23_EditorFollowsMain ==
    weights_window = "open" =>
        /\ Len(heap[ww_current_weights]) = Len(heap[current_weights])
        /\ \A i \in 1..Len(heap[current_weights]) :
               heap[ww_current_weights][i] = heap[current_weights][i]

\* a rejected edit in an editor whose list was changed before
C23_Witness ==
    /\ weights_window = "open"
    /\ last = [op |-> "on_weight_change", ok |-> FALSE]
    /\ heap[ww_current_weights] # heap[default_weights]
    /\ heap[current_weights] = heap[ww_current_weights]
    /\ \E i \in 1..Len(weight_entries) :
           weight_entries[i] # <<heap[ww_current_weights][i]>>

\* C24: in any sequence of start, pause, reset, mode switch, game duration
\* edit and tick events at most one call of update_timer is pending at any
\* time, so that a running timer is moved by one tick chain only.
C24_OneTickPending == Len(pending) <= 1

\* the end of the game: 0 for a countdown, 60 * D seconds for a count-up
GameOver ==
    IF timer_direction = "countdown" THEN current_time = 0
    ELSE current_time = game_duration[1] * 60

\* C25: with a fixed positive game duration of D minutes, after any sequence
\* of start, pause, reset, mode switch and tick events current_time is in
\* 0..60 * D; a countdown that reaches 0 and a count-up that reaches 60 * D
\* stop the timer at that value, and later ticks do not move it.
C25_TimeWithinGame ==
    /\ [](/\ current_time >= 0
          /\ current_time <= game_duration[1] * 60
          /\ GameOver => ~timer_running)
    /\ [][(GameOver /\ last'.op = "update_timer") =>
              /\ current_time' = current_time
              /\ ~timer_running']_vars

\* the countdown has reached 0 and stopped, and the call scheduled by its last
\* tick has run since
C25_Witness ==
    /\ timer_direction = "countdown"
    /\ current_time = 0
    /\ ~timer_running
    /\ pending = <<>>
    /\ last = [op |-> "update_timer", ok |-> TRUE]
=============================================================================
